---- MODULE Spec2Model ----
(***************************************************************************)
(* kodarch/templates/artisan/backend.main.py                               *)
(*                                                                         *)
(*   1  from fastapi import FastAPI                                        *)
(*   3  app = FastAPI(title="{{PROJECT_NAME}} API")                        *)
(*   6  @app.get("/")                                                      *)
(*   7  def read_root():                                                   *)
(*   8      return {"message": "Hello from FastAPI"}                       *)
(*                                                                         *)
(* The file is a scaffolding template.  The model follows its life: the    *)
(* scaffolding generator may replace the token in the title literal, the   *)
(* module is executed once (line 3 builds the app, line 6 registers the    *)
(* route), and then the hosting runtime hands requests to the app, each    *)
(* request being routed and its endpoint run independently of the others.  *)
(*                                                                         *)
(* Strings that the program takes apart or puts together are sequences:    *)
(* a title is the sequence of its pieces, a path the sequence of its       *)
(* segments after the leading "/" ("/" is <<"">>, "/docs/" is              *)
(* <<"docs", "">>).                                                        *)
(***************************************************************************)
EXTENDS Integers, Sequences, FiniteSets, TLC

VARIABLES
    fileTitle,   \* the title literal of line 3 as it stands in the file
    project,     \* the name the generator substituted, "" while unsubstituted
    pc,          \* "file" | "constructed" (after line 3) | "serving" (after line 6)
    app,         \* the module-level app objects: <<>> before line 3 runs
    reqs         \* the requests the runtime has handed to the app, by arrival

vars == <<fileTitle, project, pc, app, reqs>>

\* ---------------------------------------------------------------- bounds
MaxRequests == 2

\* ---------------------------------------------------------------- inputs
PROJECT_NAME == "{{PROJECT_NAME}}"

\* Project names a user may give the generator; the second is the case in
\* which the name coincides with the framework's.
ProjectNames == {"koda", "FastAPI"}

Methods == {"GET", "HEAD", "POST"}

RootPath == <<"">>
Paths ==
    { RootPath,                \* /
      <<"openapi.json">>,      \* /openapi.json
      <<"docs", "">>,          \* /docs/
      <<"items">> }            \* /items

Queries == {"", "name=koda"}

\* The requests the runtime may hand over: every method on every path, and
\* GET / with each query string.
Requests ==
    (Methods \X Paths \X {""}) \cup ({"GET"} \X {RootPath} \X Queries)

\* ------------------------------------------------------------ line 3, 6-8
\* The title literal of line 3: the token followed by " API".
TemplateTitle == <<PROJECT_NAME, " API">>

\* The generator's substitution: every occurrence of the token becomes the name.
Substitute(text, name) ==
    [k \in DOMAIN text |-> IF text[k] = PROJECT_NAME THEN name ELSE text[k]]

\* A variant of read_root that greets with the template token.
read_root_templated == [message |-> <<"Hello from ", PROJECT_NAME>>]

\* The value read_root returns (line 8): the literal "Hello from FastAPI",
\* the greeting followed by the framework's name.
read_root == [message |-> <<"Hello from ", "FastAPI">>]

\* The routes FastAPI's constructor registers with its default
\* openapi_url, docs_url, swagger_ui_oauth2_redirect_url and redoc_url
\* (line 3 passes only title).  They are plain Starlette routes on
\* function endpoints: methods default to GET, and GET brings HEAD.
DefaultRoutes ==
    << [path |-> <<"openapi.json">>, methods |-> {"GET", "HEAD"}, endpoint |-> "openapi"],
       [path |-> <<"docs">>, methods |-> {"GET", "HEAD"}, endpoint |-> "swagger_ui_html"],
       [path |-> <<"docs", "oauth2-redirect">>, methods |-> {"GET", "HEAD"},
        endpoint |-> "swagger_ui_redirect"],
       [path |-> <<"redoc">>, methods |-> {"GET", "HEAD"}, endpoint |-> "redoc_html"] >>

\* A variant of FastAPI that drops the title argument (the framework's own
\* default title stands).
FastAPIDefaultTitle(title) ==
    [title |-> <<"FastAPI">>, routes |-> DefaultRoutes, openapi_schema |-> <<>>]

\* FastAPI(title=...): a new app object with the default routes and no
\* OpenAPI schema generated yet (openapi_schema is None: <<>> here).
FastAPI(title) ==
    [title |-> title, routes |-> DefaultRoutes, openapi_schema |-> <<>>]

\* A variant of AppGet that registers the endpoint for every method.
AppGetAnyMethod(a, path, endpoint) ==
    [a EXCEPT !.routes =
        Append(@, [path |-> path, methods |-> {"GET", "HEAD", "POST"},
                   endpoint |-> endpoint])]

\* A variant of AppGet that replaces the route table by the new route.
AppGetAlone(a, path, endpoint) ==
    [a EXCEPT !.routes =
        <<[path |-> path, methods |-> {"GET"}, endpoint |-> endpoint]>>]

\* @app.get(path) applied to an endpoint: one API route, method GET only,
\* appended to the route table.
AppGet(a, path, endpoint) ==
    [a EXCEPT !.routes =
        Append(@, [path |-> path, methods |-> {"GET"}, endpoint |-> endpoint])]

\* ------------------------------------------------------------- responses
EmptyBody == [k \in {} |-> ""]
NoResponse == [status |-> 0, location |-> <<>>, body |-> EmptyBody]

Json(status, body) == [status |-> status, location |-> <<>>, body |-> body]

\* The schema app.openapi() generates: the title and the operations of the
\* routes that are included in the schema (the API routes).
OpenApiSchema(a) ==
    [info |-> [title |-> a.title, version |-> "0.1.0"],
     paths |-> { <<a.routes[k].path, m>> :
                   k \in { j \in DOMAIN a.routes : a.routes[j].endpoint = "read_root" },
                   m \in {"GET"} }]

\* The endpoints behind the default routes.  The openapi endpoint generates
\* the schema on first use and keeps it in app.openapi_schema; the two
\* documentation pages carry the title.
Builtin(endpoint, a) ==
    CASE endpoint = "openapi" ->
            LET schema == IF a.openapi_schema = <<>> THEN OpenApiSchema(a)
                          ELSE a.openapi_schema[1]
            IN  [app |-> [a EXCEPT !.openapi_schema = <<schema>>],
                 response |-> Json(200, schema)]
      [] endpoint = "swagger_ui_html" ->
            [app |-> a,
             response |-> Json(200, [html |-> Append(a.title, " - Swagger UI")])]
      [] endpoint = "redoc_html" ->
            [app |-> a,
             response |-> Json(200, [html |-> Append(a.title, " - ReDoc")])]
      [] endpoint = "swagger_ui_redirect" ->
            [app |-> a, response |-> Json(200, [html |-> <<"oauth2-redirect">>])]

\* A variant of Call in which read_root leaves a trace on the app object.
CallCaching(endpoint, a) ==
    IF endpoint = "read_root"
    THEN [app |-> [a EXCEPT !.openapi_schema = <<OpenApiSchema(a)>>],
          response |-> Json(200, read_root)]
    ELSE Builtin(endpoint, a)

\* A variant of Call in which read_root answers from state shared with the
\* other requests.
CallShared(endpoint, a) ==
    IF endpoint = "read_root"
    THEN [app |-> a,
          response |-> IF a.openapi_schema = <<>> THEN Json(200, read_root)
                       ELSE Json(200, [message |-> <<"Hello again">>])]
    ELSE Builtin(endpoint, a)

\* A variant of Call in which read_root greets with the project's name.
CallTitled(endpoint, a) ==
    IF endpoint = "read_root"
    THEN [app |-> a, response |-> Json(200, [message |-> <<"Hello from ", a.title[1]>>])]
    ELSE Builtin(endpoint, a)

\* Running an endpoint on the app: the app afterwards and the response.
\* read_root takes no argument and touches nothing; its return value is
\* sent as JSON with status 200.
Call(endpoint, a) ==
    IF endpoint = "read_root"
    THEN [app |-> a, response |-> Json(200, read_root)]
    ELSE Builtin(endpoint, a)

\* --------------------------------------------------------------- routing
\* The first route whose path matches, 0 if none.
RECURSIVE FirstPath(_, _, _)
FirstPath(routes, path, k) ==
    IF k > Len(routes) THEN 0
    ELSE IF routes[k].path = path THEN k
    ELSE FirstPath(routes, path, k + 1)

\* The first route whose path and method match, 0 if none.
RECURSIVE FirstFull(_, _, _, _)
FirstFull(routes, method, path, k) ==
    IF k > Len(routes) THEN 0
    ELSE IF routes[k].path = path /\ method \in routes[k].methods THEN k
    ELSE FirstFull(routes, method, path, k + 1)

\* path.rstrip("/") and path + "/" on segment sequences.
RECURSIVE RStrip(_)
RStrip(path) ==
    IF path # <<>> /\ path[Len(path)] = ""
    THEN RStrip(SubSeq(path, 1, Len(path) - 1))
    ELSE path

ToggleSlash(path) ==
    IF path[Len(path)] = "" THEN RStrip(path) ELSE Append(path, "")

\* The router's decision for a request: the endpoint to run, or the
\* response the framework gives by itself.
Route(a, method, path) ==
    LET full == FirstFull(a.routes, method, path, 1)
        part == FirstPath(a.routes, path, 1)
    IN  IF full # 0 THEN
            [endpoint |-> a.routes[full].endpoint, response |-> NoResponse]
        ELSE IF part # 0 THEN
            [endpoint |-> "", response |-> Json(405, [detail |-> "Method Not Allowed"])]
        ELSE IF path # RootPath /\ FirstPath(a.routes, ToggleSlash(path), 1) # 0 THEN
            [endpoint |-> "",
             response |-> [status |-> 307, location |-> ToggleSlash(path),
                           body |-> EmptyBody]]
        ELSE
            [endpoint |-> "", response |-> Json(404, [detail |-> "Not Found"])]

\* ----------------------------------------------------------------- state
NewRequest ==
    [st |-> "new", method |-> "", path |-> <<>>, query |-> "",
     endpoint |-> "", response |-> NoResponse]

Init ==
    /\ fileTitle = TemplateTitle
    /\ project = ""
    /\ pc = "file"
    /\ app = <<>>
    /\ reqs = [i \in 1..MaxRequests |-> NewRequest]

\* The scaffolding generator writes the project name into the file.
Generate(name) ==
    /\ pc = "file"
    /\ project = ""
    /\ fileTitle' = Substitute(fileTitle, name)
    /\ project' = name
    /\ UNCHANGED <<pc, app, reqs>>

\* Line 3: app = FastAPI(title=...).
Construct ==
    /\ pc = "file"
    /\ app' = Append(app, FastAPI(fileTitle))
    /\ pc' = "constructed"
    /\ UNCHANGED <<fileTitle, project, reqs>>

\* Lines 6-8: @app.get("/") def read_root.
Register ==
    /\ pc = "constructed"
    /\ app' = [app EXCEPT ![1] = AppGet(@, RootPath, "read_root")]
    /\ pc' = "serving"
    /\ UNCHANGED <<fileTitle, project, reqs>>

\* The runtime hands the next request to the app.
Receive(i, method, path, query) ==
    /\ pc = "serving"
    /\ reqs[i].st = "new"
    /\ \A j \in 1..(i - 1) : reqs[j].st # "new"
    /\ reqs' = [reqs EXCEPT ![i] =
                  [@ EXCEPT !.st = "received", !.method = method,
                            !.path = path, !.query = query]]
    /\ UNCHANGED <<fileTitle, project, pc, app>>

\* The router matches the request against the route table.
Dispatch(i) ==
    /\ reqs[i].st = "received"
    /\ LET r == Route(app[1], reqs[i].method, reqs[i].path)
       IN  reqs' = [reqs EXCEPT ![i] =
                      [@ EXCEPT !.st = IF r.endpoint = "" THEN "responded" ELSE "running",
                                !.endpoint = r.endpoint,
                                !.response = r.response]]
    /\ UNCHANGED <<fileTitle, project, pc, app>>

\* The endpoint runs and its result is sent.
Return(i) ==
    /\ reqs[i].st = "running"
    /\ LET c == Call(reqs[i].endpoint, app[1])
       IN  /\ app' = [app EXCEPT ![1] = c.app]
           /\ reqs' = [reqs EXCEPT ![i] =
                         [@ EXCEPT !.st = "responded", !.response = c.response]]
    /\ UNCHANGED <<fileTitle, project, pc>>

Next ==
    \/ \E name \in ProjectNames : Generate(name)
    \/ Construct
    \/ Register
    \/ \E i \in 1..MaxRequests, r \in Requests : Receive(i, r[1], r[2], r[3])
    \/ \E i \in 1..MaxRequests : Dispatch(i)
    \/ \E i \in 1..MaxRequests : Return(i)

Spec == Init /\ [][Next]_vars

\* The runtime does not stop while a request it accepted is unanswered.
Progress == \E i \in 1..MaxRequests : Dispatch(i) \/ Return(i)

FairSpec == Spec /\ WF_vars(Progress)

\* ================================================================ claims
IsRoot(r) == r.method = "GET" /\ r.path = RootPath

Hello == [message |-> <<"Hello from ", "FastAPI">>]

IsHello200(resp) == resp.status = 200 /\ resp.body = Hello

Ids == 1..MaxRequests

\* i's response is sent in this step.
Completes(i) == reqs[i].st # "responded" /\ reqs'[i].st = "responded"

\* The response of app a to a request, taken by itself.
Serve(a, method, path) ==
    LET r == Route(a, method, path)
    IN  IF r.endpoint = "" THEN r.response ELSE Call(r.endpoint, a).response

\* The app the file gives once `name` stands for the token ("" leaves it).
AppFor(name) ==
    AppGet(FastAPI(IF name = "" THEN TemplateTitle ELSE Substitute(TemplateTitle, name)),
           RootPath, "read_root")

\* ---------------------------------------------------------------- C1
\* C1: every answered GET / has status 200 and the body is the object with
\* the single key "message" mapped to "Hello from FastAPI", whatever the
\* query string of the request.
C1_RootResponse ==
    \A i \in Ids :
        (reqs[i].st = "responded" /\ IsRoot(reqs[i])) =>
            /\ reqs[i].response.status = 200
            /\ DOMAIN reqs[i].response.body = {"message"}
            /\ reqs[i].response.body.message = <<"Hello from ", "FastAPI">>

C1_Witness ==
    \E i \in Ids :
        /\ reqs[i].st = "responded" /\ IsRoot(reqs[i])
        /\ reqs[i].query # ""
        /\ reqs[i].response.status = 200

C3_Concurrent ==
    /\ [][ \A i \in Ids :
              (Completes(i) /\ reqs[i].endpoint = "read_root") =>
                  /\ IsHello200(reqs'[i].response)
                  /\ app' = app
                  /\ \A j \in Ids \ {i} : reqs'[j] = reqs[j] ]_vars
    /\ \A i \in Ids :
          (reqs[i].st = "received" /\ IsRoot(reqs[i]))
              ~> (reqs[i].st = "responded" /\ IsHello200(reqs[i].response))

\* Two GET / in flight together, the later one answered while the earlier
\* one is still inside read_root.
C3_Witness ==
    /\ MaxRequests >= 2
    /\ reqs[1].st = "running" /\ IsRoot(reqs[1])
    /\ reqs[2].st = "responded" /\ IsRoot(reqs[2])
    /\ IsHello200(reqs[2].response)

\* ---------------------------------------------------------------- C4
DocPaths ==
    { <<"openapi.json">>, <<"docs">>, <<"docs", "oauth2-redirect">>, <<"redoc">> }

\* C4 as stated: a request other than GET / never runs read_root, never
\* gets the hello payload with 200, gets 404 (path not "/") or 405 (path
\* "/"), and leaves the app unchanged.
C4_OnlyRootRoute ==
    [][ \A i \in Ids :
          (Completes(i) /\ ~IsRoot(reqs[i])) =>
              /\ reqs'[i].endpoint # "read_root"
              /\ ~IsHello200(reqs'[i].response)
              /\ reqs[i].path # RootPath => reqs'[i].response.status = 404
              /\ reqs[i].path = RootPath => reqs'[i].response.status = 405
              /\ app' = app ]_vars

\* C4 amended: a request other than GET / never runs read_root and never
\* gets the hello payload with 200.  On "/" with another method it gets
\* 405.  On another path it gets 404, except on the four paths of the
\* framework's documentation routes (200 for GET and HEAD, 405 otherwise)
\* and on those paths followed by slashes (307 to the path without them).
\* It leaves the app's title and route table unchanged; only the request
\* for the OpenAPI schema may fill app.openapi_schema.
C4_OnlyRootRouteAmended ==
    [][ \A i \in Ids :
          (Completes(i) /\ ~IsRoot(reqs[i])) =>
              LET p == reqs[i].path
                  m == reqs[i].method
                  resp == reqs'[i].response
              IN  /\ reqs'[i].endpoint # "read_root"
                  /\ ~IsHello200(resp)
                  /\ p = RootPath => resp.status = 405
                  /\ (p # RootPath /\ p \in DocPaths) =>
                        resp.status = IF m \in {"GET", "HEAD"} THEN 200 ELSE 405
                  /\ (p # RootPath /\ p \notin DocPaths /\ RStrip(p) \in DocPaths) =>
                        (resp.status = 307 /\ resp.location = RStrip(p))
                  /\ (p # RootPath /\ p \notin DocPaths /\ RStrip(p) \notin DocPaths) =>
                        resp.status = 404
                  /\ app'[1].title = app[1].title
                  /\ app'[1].routes = app[1].routes
                  /\ app' # app => reqs[i].endpoint = "openapi" ]_vars

C4_Witness ==
    /\ MaxRequests >= 2
    /\ reqs[1].st = "responded" /\ reqs[1].method = "POST" /\ reqs[1].path = RootPath
    /\ reqs[1].response.status = 405
    /\ reqs[2].st = "responded" /\ reqs[2].method = "GET" /\ reqs[2].path = <<"items">>
    /\ reqs[2].response.status = 404

\* ---------------------------------------------------------------- C5
\* C5 as stated: once the generator has put the name N for the token, the
\* app's title is N; run unsubstituted, the title contains the token.
C5_TitleIsName ==
    app # <<>> =>
        /\ project # "" => app[1].title = <<project>>
        /\ project = "" => \E k \in DOMAIN app[1].title : app[1].title[k] = PROJECT_NAME

\* C5 amended: once the generator has put the name N for the token, the
\* app's title is N followed by " API"; run unsubstituted, the title
\* contains the token; the title is the file's literal as the generator left it.
C5_TitleIsNameApi ==
    app # <<>> =>
        /\ project # "" => app[1].title = <<project, " API">>
        /\ project = "" => \E k \in DOMAIN app[1].title : app[1].title[k] = PROJECT_NAME
        /\ app[1].title = fileTitle

C5_Witness ==
    /\ pc = "serving"
    /\ project = "koda"
    /\ app[1].title = <<"koda", " API">>

\* ---------------------------------------------------------------- C6
\* C6: the answer to an answered GET / is the answer every other choice of
\* project name (or none) would have given, and the name after
\* "Hello from " is the framework's even when the project is named otherwise.
C6_NameHasNoInfluence ==
    \A i \in Ids :
        (reqs[i].st = "responded" /\ IsRoot(reqs[i])) =>
            /\ \A n \in ProjectNames \cup {""} :
                  LET other == Serve(AppFor(n), reqs[i].method, reqs[i].path)
                  IN  /\ other.status = reqs[i].response.status
                      /\ other.body = reqs[i].response.body
            /\ reqs[i].response.body.message[2] = "FastAPI"

C6_Witness ==
    \E i \in Ids :
        /\ reqs[i].st = "responded" /\ IsRoot(reqs[i])
        /\ project = "koda"
        /\ reqs[i].response.body.message[2] # project

\* ---------------------------------------------------------------- C7
RootRoute == [path |-> RootPath, methods |-> {"GET"}, endpoint |-> "read_root"]

\* C7 as stated: one app object, created before any request, never
\* replaced or mutated; after start-up its route table is exactly the one
\* entry (GET, "/") -> read_root.
C7_OneAppOneRoute ==
    [][ /\ (\E i \in Ids : reqs[i].st # "new") => Len(app) = 1
        /\ pc = "serving" =>
              /\ Len(app) = 1
              /\ app[1].routes = <<RootRoute>>
              /\ app' = app ]_vars

\* C7 amended: one app object, created before any request and never
\* replaced; after start-up its title and route table never change, and the
\* route table is the framework's four documentation routes followed by the
\* one entry (GET, "/") -> read_root, the only route to read_root and the
\* only one on "/".  The one field that changes is the cached OpenAPI schema.
C7_OneAppOneUserRoute ==
    [][ /\ (\E i \in Ids : reqs[i].st # "new") => (pc = "serving" /\ Len(app) = 1)
        /\ pc # "file" => (Len(app) = 1 /\ Len(app') = 1)
        /\ pc = "serving" =>
              /\ app[1].routes = DefaultRoutes \o <<RootRoute>>
              /\ { k \in DOMAIN app[1].routes :
                      app[1].routes[k].endpoint = "read_root"
                      \/ app[1].routes[k].path = RootPath } = {Len(app[1].routes)}
              /\ app'[1].title = app[1].title
              /\ app'[1].routes = app[1].routes
              /\ pc' = "serving" ]_vars

C7_Witness ==
    /\ pc = "serving"
    /\ Len(app) = 1
    /\ app[1].openapi_schema # <<>>
    /\ \A i \in Ids : reqs[i].st = "responded"

====
